---------------------------- MODULE Spec2Model ----------------------------
(***************************************************************************)
(* Verification model of the hbs-table-extractor:                          *)
(*   - rust_parser/src/lib.rs : HbsTableExtractor, the geometric engine    *)
(*     (from_stream, extract_table_objects, extract_columns,               *)
(*     generate_column, extract_tables, extract_date, schedule_from_pdf)   *)
(*   - tabula_pdf_parser/src/lib.rs : TabulaParser::table_to_substitutions *)
(*                                                                         *)
(* Strings are sequences of tokens (<<"Datum:", " ", "01.01.2024">>), so   *)
(* that contains / rfind / starts_with are computed, not assumed.          *)
(* Operands of content-stream operators are fixed-point numbers in tenths  *)
(* (305 is 30.5); `as i64` truncates them toward zero.                     *)
(* Timestamps are counted in days since the epoch (one day = 86400000 ms). *)
(***************************************************************************)
EXTENDS Integers, Sequences, FiniteSets, TLC

VARIABLES
    streams,    \* input: per content stream, the decoded operator sequence
    pc,         \* position inside schedule_from_pdf
    pages,      \* HbsTableExtractor.0 : Vec<PageObjects>
    tables,     \* value of extractor.extract_tables()?
    entries,    \* the HashMap built by schedule_from_pdf
    result,     \* what schedule_from_pdf handed to its caller
    steps,      \* outcome kind of each step that has run in this call
    run,        \* 1 on the first call on the input, 2 on the repeated call
    first,      \* result of the first call (kept for the repeated call)
    page,       \* region finder on its own: the PageObjects it is given
    regions,    \* region finder on its own: what extract_table_objects returned
    table,      \* table assembler: the rectangular table
    row,        \* table assembler: local `row`
    lesson_idx, \* table assembler: loop variable `lesson_idx`
    tentries,   \* table assembler: local `entries`
    tlog,       \* table assembler: (row, lesson_idx) of every row consumed
    tpc,        \* table assembler: position inside table_to_substitutions
    region,     \* column pipeline on its own: the TableObjects of one region
    columns,    \* column pipeline on its own: what extract_columns returned
    generated   \* column pipeline on its own: what generate_column returned,
                \* column by column

vars == <<streams, pc, pages, tables, entries, result, steps, run, first,
          page, regions, table, row, lesson_idx, tentries, tlog, tpc,
          region, columns, generated>>

----------------------------------------------------------------------------
(* Bounds of the model *)

\* the facade input is the reference document changed in at most this many ways
MaxToggles == 2
\* the drained HashSet yields the insertion order rotated by 0..MaxRot,
\* forwards or backwards
MaxRot == 1
\* the region finder on its own gets at most this many page objects
MaxPageObjects == 6
\* the table assembler on its own gets at most this many data rows
MaxRows == 5

----------------------------------------------------------------------------
(* Results: Ok(val), Err(err) returned to the caller, or a panic that      *)
(* unwinds the call                                                        *)

Ok(v) == [kind |-> "Ok",    err |-> "", val |-> v]
Err(e) == [kind |-> "Err",   err |-> e,  val |-> <<>>]
Panic(e) == [kind |-> "Panic", err |-> e,  val |-> <<>>]

----------------------------------------------------------------------------
(* Data model *)

\* struct Text { text, position }
Text(s, x, y) ==
    [kind |-> "Text", text |-> s, sx |-> x, sy |-> y, ex |-> x, ey |-> y]

\* TableObject::Line(Line<i64>) : start, end
Line(x1, y1, x2, y2) ==
    [kind |-> "Line", text |-> <<>>, sx |-> x1, sy |-> y1, ex |-> x2, ey |-> y2]

\* geo::Line::dy
dy(l) == l.ey - l.sy

\* one content-stream operation: operator name, two numeric operands (tenths),
\* one string operand
Operation(name, a, b, s) == [operator |-> name, a |-> a, b |-> b, s |-> s]

\* `as_f64()? as i64` : truncation toward zero
as_i64(v) == IF v >= 0 THEN v \div 10 ELSE -((-v) \div 10)

\* str::contains for a two-token needle and a one-token needle
Contains2(s, a, b) == \E i \in 1..(Len(s) - 1) : s[i] = a /\ s[i + 1] = b
Contains1(s, a) == \E i \in 1..Len(s) : s[i] = a

\* Iterator::filter over a Vec
RECURSIVE SelectKind(_, _)
SelectKind(objs, k) ==
    IF objs = <<>> THEN <<>>
    ELSE IF Head(objs).kind = k
         THEN <<Head(objs)>> \o SelectKind(Tail(objs), k)
         ELSE SelectKind(Tail(objs), k)

\* PageObjects::lines / TableObjects::texts / TableColumn::lines ...
lines(objs) == SelectKind(objs, "Line")
texts(objs) == SelectKind(objs, "Text")

InSeq(e, s) == \E i \in 1..Len(s) : s[i] = e

----------------------------------------------------------------------------
(* Operator reader: PageObjects::from_stream *)

\* the object that the operation at index i inserts (i > 1, a Tj after its
\* Td or an l after its m)
Inserted(ops, i) ==
    IF ops[i].operator = "Tj"
    THEN Text(ops[i].s, as_i64(ops[i - 1].a), as_i64(ops[i - 1].b))
    ELSE Line(as_i64(ops[i - 1].a), as_i64(ops[i - 1].b),
              as_i64(ops[i].a), as_i64(ops[i].b))

\* the indices at which the loop of from_stream leaves the function: a Tj or
\* an l whose predecessor is not its Td / m, or that has no predecessor
Leaves(ops) ==
    { i \in 1..Len(ops) :
        \/ ops[i].operator = "Tj" /\ (i = 1 \/ ops[i - 1].operator # "Td")
        \/ ops[i].operator = "l"  /\ (i = 1 \/ ops[i - 1].operator # "m") }

\* the k-th smallest element of a set of indices
Nth(S, k) == CHOOSE i \in S : Cardinality({ j \in S : j < i }) = k - 1

\* objects as a Vec: objects.push(..) keeps an object that is already there
from_stream_vec(ops) ==
    LET leaves == Leaves(ops) IN
    IF leaves # {}
    THEN LET i == Nth(leaves, 1) IN
         IF i = 1 THEN Panic("index out of bounds")
         ELSE IF ops[i].operator = "Tj" THEN Err("Td expected before Tj")
         ELSE Err("m expected before l")
    ELSE LET payload == SelectSeq([i \in 1..Len(ops) |-> i],
                                  LAMBDA i : ops[i].operator \in {"Tj", "l"})
         IN  Ok([k \in 1..Len(payload) |-> Inserted(ops, payload[k])])

\* objects is the HashSet, kept here in insertion order (the order it is
\* drained in is chosen by LoadFrom): an insert of an equal object is dropped
from_stream(ops) ==
    LET leaves == Leaves(ops) IN
    IF leaves # {}
    THEN LET i == Nth(leaves, 1) IN
         \* stream.operations[i - 1] at the first operation: usize underflow
         IF i = 1 THEN Panic("index out of bounds")
         ELSE IF ops[i].operator = "Tj" THEN Err("Td expected before Tj")
         ELSE Err("m expected before l")
    ELSE LET payload == SelectSeq([i \in 1..Len(ops) |-> i],
                                  LAMBDA i : ops[i].operator \in {"Tj", "l"})
             object == [k \in 1..Len(payload) |-> Inserted(ops, payload[k])]
             fresh == SelectSeq([k \in 1..Len(payload) |-> k],
                                LAMBDA k : \A j \in 1..(k - 1) : object[j] # object[k])
         IN  Ok([k \in 1..Len(fresh) |-> object[fresh[k]]])

\* objects.drain().collect(): the HashSet yields its elements in an order of
\* its own; modelled as the insertion order rotated by r, reversed if rev
Drain(objs, r, rev) ==
    LET n == Len(objs)
        rot == [i \in 1..n |-> objs[((i - 1 + r) % n) + 1]]
    IN  IF rev THEN [i \in 1..n |-> rot[n + 1 - i]] ELSE rot

----------------------------------------------------------------------------
(* Sorting *)

\* Vec<i64>::sort : ascending
RECURSIVE InsertAsc(_, _)
InsertAsc(s, v) ==
    IF s = <<>> THEN <<v>>
    ELSE IF Head(s) <= v THEN <<Head(s)>> \o InsertAsc(Tail(s), v)
         ELSE <<v>> \o s

RECURSIVE SortAsc(_)
SortAsc(s) ==
    IF s = <<>> THEN <<>>
    ELSE InsertAsc(SortAsc(SubSeq(s, 1, Len(s) - 1)), s[Len(s)])

\* sort_by(|l1, l2| l2.y.cmp(&l1.y)) : descending by y, stable (objects of
\* equal y keep the order they had)
\* an unstable variant: an object is put before the objects of its own y
RECURSIVE InsertDescY_before(_, _)
InsertDescY_before(s, o) ==
    IF s = <<>> THEN <<o>>
    ELSE IF Head(s).sy > o.sy THEN <<Head(s)>> \o InsertDescY_before(Tail(s), o)
         ELSE <<o>> \o s

RECURSIVE InsertDescY(_, _)
InsertDescY(s, o) ==
    IF s = <<>> THEN <<o>>
    ELSE IF Head(s).sy >= o.sy THEN <<Head(s)>> \o InsertDescY(Tail(s), o)
         ELSE <<o>> \o s

RECURSIVE SortDescY(_)
SortDescY(s) ==
    IF s = <<>> THEN <<>>
    ELSE InsertDescY(SortDescY(SubSeq(s, 1, Len(s) - 1)), s[Len(s)])

\* Iterator::max / Iterator::min over a non-empty set of integers
SetMax(S) == CHOOSE m \in S : \A v \in S : v <= m
SetMin(S) == CHOOSE m \in S : \A v \in S : m <= v

----------------------------------------------------------------------------
(* Region finder: TableObject::between_y, PageObjects::extract_table_objects *)

\* the bounds taken into the band: let between = |o| o <= limit_top && o >= limit_bottom
between_y_inclusive(o, limit_top, limit_bottom) ==
    IF o.kind = "Text"
    THEN o.sy <= limit_top /\ o.sy >= limit_bottom
    ELSE /\ o.sy <= limit_top /\ o.sy >= limit_bottom
         /\ o.ey <= limit_top /\ o.ey >= limit_bottom

between_y(o, limit_top, limit_bottom) ==
    IF o.kind = "Text"
    THEN o.sy < limit_top /\ o.sy > limit_bottom
    ELSE /\ o.sy < limit_top /\ o.sy > limit_bottom
         /\ o.ey < limit_top /\ o.ey > limit_bottom

\* texts equal to "Block", y + 4, in Vec order
RECURSIVE BlockTops(_)
BlockTops(ts) ==
    IF ts = <<>> THEN <<>>
    ELSE IF Head(ts).text = <<"Block">>
         THEN <<Head(ts).sy + 4>> \o BlockTops(Tail(ts))
         ELSE BlockTops(Tail(ts))

\* texts containing "15:15", y, in Vec order
RECURSIVE EndMarks(_)
EndMarks(ts) ==
    IF ts = <<>> THEN <<>>
    ELSE IF Contains1(Head(ts).text, "15:15")
         THEN <<Head(ts).sy>> \o EndMarks(Tail(ts))
         ELSE EndMarks(Tail(ts))

top_limits(objs) == SortAsc(BlockTops(texts(objs)))

\* bottom_limits without bottom_limits.sort()
bottom_limits_unsorted(objs) == EndMarks(texts(objs))

bottom_limits(objs) == SortAsc(EndMarks(texts(objs)))

\* the negative deltas l.start.y - limit of the horizontal lines
line_deltas(objs, limit) ==
    LET ls == lines(objs) IN
    { ls[k].sy - limit : k \in { j \in 1..Len(ls) :
                                   dy(ls[j]) = 0 /\ ls[j].sy - limit < 0 } }

\* the objects of the page that lie in the band, in Vec order
RECURSIVE Band(_, _, _)
Band(objs, top_bound, bottom_bound) ==
    IF objs = <<>> THEN <<>>
    ELSE IF between_y(Head(objs), top_bound, bottom_bound)
         THEN <<Head(objs)>> \o Band(Tail(objs), top_bound, bottom_bound)
         ELSE Band(Tail(objs), top_bound, bottom_bound)

extract_table_objects(objs) ==
    LET tl == top_limits(objs)
        bl == bottom_limits(objs)
    IN  IF Len(bl) # Len(tl)
        THEN Err("bottom and top limits don't match up")
        ELSE IF \E i \in 1..Len(bl) : line_deltas(objs, bl[i]) = {}
        THEN Err("table bound could not be found")
        ELSE LET bottom_limit_y ==
                     [i \in 1..Len(bl) |->
                         bl[i] + SetMax(line_deltas(objs, bl[i])) - 4]
             IN  Ok([idx \in 1..Len(tl) |->
                         Band(objs, tl[idx], bottom_limit_y[idx])])

----------------------------------------------------------------------------
(* Column extractor: TableObjects::extract_columns *)

\* Text::between_x
between_x(t, limit_start, limit_end) == t.sx > limit_start /\ t.sx < limit_end

\* TableObject::intersects_x_border
intersects_x_border(o, border) ==
    IF o.kind = "Line"
    THEN IF dy(o) = 0 THEN border >= o.sx /\ border <= o.ex ELSE FALSE
    ELSE o.sy = border

\* TableColumn::start / TableColumn::end (callers check that lines exist)
start(column) ==
    LET ls == lines(column) IN SetMin({ ls[k].sx : k \in 1..Len(ls) })

end(column) ==
    LET ls == lines(column) IN SetMax({ ls[k].ex : k \in 1..Len(ls) })

\* the texts of the region on the header baseline that are not "Block"
RECURSIVE Headers(_, _)
Headers(ts, header_height) ==
    IF ts = <<>> THEN <<>>
    ELSE LET h == Head(ts) IN
         IF /\ h.sy < header_height + 2
            /\ h.sy > header_height - 2
            /\ h.text # <<"Block">>
         THEN <<h>> \o Headers(Tail(ts), header_height)
         ELSE Headers(Tail(ts), header_height)

\* first loop over the columns: the objects that intersect the header's x
RECURSIVE Intersecting(_, _)
Intersecting(objs, border) ==
    IF objs = <<>> THEN <<>>
    ELSE IF intersects_x_border(Head(objs), border)
         THEN <<Head(objs)>> \o Intersecting(Tail(objs), border)
         ELSE Intersecting(Tail(objs), border)

\* second loop over the columns: the texts inside the column's x-extent
RECURSIVE Inside(_, _, _)
Inside(ts, limit_start, limit_end) ==
    IF ts = <<>> THEN <<>>
    ELSE IF between_x(Head(ts), limit_start, limit_end)
         THEN <<Head(ts)>> \o Inside(Tail(ts), limit_start, limit_end)
         ELSE Inside(Tail(ts), limit_start, limit_end)

\* Ok(Vec<TableColumn>), or the panic of one of the two expect() calls
extract_columns(objs) ==
    LET ts == texts(objs)
        blocks == { k \in 1..Len(ts) : ts[k].text = <<"Block">> }
    IN  IF blocks = {} THEN Panic("String 'Block' not found")
        ELSE
        LET header_height == ts[SetMin(blocks)].sy
            hs == Headers(ts, header_height)
            bag == [i \in 1..Len(hs) |-> Intersecting(objs, hs[i].sx)]
        IN  IF \E i \in 1..Len(hs) : lines(bag[i]) = <<>>
            THEN Panic("no lines in field 'column'")
            ELSE Ok([i \in 1..Len(hs) |->
                       [header |-> hs[i],
                        column |-> bag[i] \o
                                   Inside(ts, start(bag[i]), end(bag[i]))]])

----------------------------------------------------------------------------
(* Cell splitter: TableColumn::generate_column *)

\* spacing between each line and the next lower one
spacings(ls) == [k \in 1..(Len(ls) - 1) |-> ls[k].sy - ls[k + 1].sy]

\* sort(); reverse()
Reverse(s) == [i \in 1..Len(s) |-> s[Len(s) + 1 - i]]

\* the filter with a strict comparison: .filter(|(_, s)| *s > &smallest_space)
RECURSIVE Retained_strict(_, _, _)
Retained_strict(ls, spacing, smallest_space) ==
    IF ls = <<>> THEN <<>>
    ELSE IF Head(spacing) > smallest_space
         THEN <<Head(ls)>> \o Retained_strict(Tail(ls), Tail(spacing), smallest_space)
         ELSE Retained_strict(Tail(ls), Tail(spacing), smallest_space)

\* the lines whose companion spacing is >= smallest_space, in order
RECURSIVE Retained(_, _, _)
Retained(ls, spacing, smallest_space) ==
    IF ls = <<>> THEN <<>>
    ELSE IF Head(spacing) >= smallest_space
         THEN <<Head(ls)>> \o Retained(Tail(ls), Tail(spacing), smallest_space)
         ELSE Retained(Tail(ls), Tail(spacing), smallest_space)

\* the cell walk from position k on: i counts the lines met so far;
\* result[i] with i = 7 is out of bounds
RECURSIVE Walk(_, _, _, _)
Walk(cleaned_column, k, i, cells) ==
    IF k > Len(cleaned_column) THEN Ok(cells)
    ELSE IF cleaned_column[k].kind = "Line"
         THEN Walk(cleaned_column, k + 1, i + 1, cells)
         ELSE IF i >= 7 THEN Panic("index out of bounds")
              ELSE Walk(cleaned_column, k + 1, i,
                        [cells EXCEPT ![i + 1] =
                             Append(@, cleaned_column[k].text)])

\* the retained lines followed by the texts (cleaned_column before its sort);
\* called only when there are at least six spacings
cleaned(column) ==
    LET ls == SortDescY(lines(column))
        spacing == spacings(ls)
        smallest_space == Reverse(SortAsc(spacing))[6]
    IN  Retained(ls, Append(spacing, smallest_space), smallest_space)
        \o texts(column)

generate_column(col) ==
    LET column == SelectSeq(col.column, LAMBDA o : ~(o.kind = "Line" /\ dy(o) # 0))
        ls == lines(column)
    IN  \* spacing_sorted[5] on fewer than six spacings
        IF Len(ls) - 1 < 6 THEN Panic("index out of bounds")
        ELSE
        LET cleaned_column == cleaned(column)
            last == cleaned_column[Len(cleaned_column)]
        IN  IF Len(cleaned_column) - Len(texts(column)) # 7
            THEN Err("not exactly 7 lines")
            ELSE IF last.kind = "Line" /\ dy(last) # 0
            THEN Err("vertical line in vector")
            ELSE LET sorted == SortDescY(cleaned_column) IN
                 IF sorted[1].kind = "Line"
                 THEN Err("expected header text")
                 ELSE Walk(sorted, 1, 0, [c \in 1..7 |-> <<>>])

----------------------------------------------------------------------------
(* HbsTableExtractor::extract_tables *)

\* generate_column over the columns of one region, stopping at the first
\* column that does not yield Ok
RECURSIVE ColumnsOf(_, _, _)
ColumnsOf(cols, k, acc) ==
    IF k > Len(cols) THEN Ok(acc)
    ELSE LET c == generate_column(cols[k]) IN
         IF c.kind # "Ok" THEN c
         ELSE ColumnsOf(cols, k + 1, Append(acc, c.val))

\* extract_columns then generate_column over the regions of one page
RECURSIVE TablesOf(_, _, _)
TablesOf(regs, r, acc) ==
    IF r > Len(regs) THEN Ok(acc)
    ELSE LET cols == extract_columns(regs[r]) IN
         IF cols.kind # "Ok" THEN cols
         ELSE LET t == ColumnsOf(cols.val, 1, <<>>) IN
              IF t.kind # "Ok" THEN t
              ELSE TablesOf(regs, r + 1, Append(acc, t.val))

\* the second pass of extract_tables over the pages' regions
RECURSIVE PagesOf(_, _, _)
PagesOf(regsPerPage, p, acc) ==
    IF p > Len(regsPerPage) THEN Ok(acc)
    ELSE LET t == TablesOf(regsPerPage[p], 1, <<>>) IN
         IF t.kind # "Ok" THEN t
         ELSE PagesOf(regsPerPage, p + 1, Append(acc, t.val))

\* the first pass of extract_tables: extract_table_objects of every page,
\* collected into one Result
RECURSIVE RegionsOf(_, _, _)
RegionsOf(ps, p, acc) ==
    IF p > Len(ps) THEN Ok(acc)
    ELSE LET r == extract_table_objects(ps[p]) IN
         IF r.kind # "Ok" THEN r
         ELSE RegionsOf(ps, p + 1, Append(acc, r.val))

extract_tables(ps) ==
    LET regs == RegionsOf(ps, 1, <<>>) IN
    IF regs.kind # "Ok" THEN regs ELSE PagesOf(regs.val, 1, <<>>)

----------------------------------------------------------------------------
(* HbsTableExtractor::extract_date *)

\* self.0.iter().map(|p| p.texts()).flatten()
RECURSIVE AllTexts(_)
AllTexts(ps) ==
    IF ps = <<>> THEN <<>> ELSE texts(Head(ps)) \o AllTexts(Tail(ps))

\* chrono::NaiveDate::parse_from_str(.., "%d.%m.%Y") then timestamp, in days
parse_from_str(s) ==
    IF s = <<"01.01.2024">> THEN Ok(19723)
    ELSE IF s = <<"02.01.2024">> THEN Ok(19724)
    ELSE IF s = <<"03.01.2024">> THEN Ok(19725)
    ELSE Err("date parse error")

\* extract_date with the date-not-found case defaulted to the epoch
extract_date_or_epoch(ps) ==
    LET ts == AllTexts(ps)
        found == { k \in 1..Len(ts) : Contains2(ts[k].text, "Datum:", " ") }
    IN  IF found = {} THEN Ok(0)
        ELSE
        LET date_string == ts[SetMin(found)].text
            spaces == { k \in 1..Len(date_string) : date_string[k] = " " }
        IN  IF spaces = {} THEN Err("Date string malformed")
            ELSE parse_from_str(
                     SubSeq(date_string, SetMax(spaces) + 1, Len(date_string)))

extract_date(ps) ==
    LET ts == AllTexts(ps)
        found == { k \in 1..Len(ts) : Contains2(ts[k].text, "Datum:", " ") }
    IN  IF found = {} THEN Err("Couldn't find the date string in PDF")
        ELSE
        LET date_string == ts[SetMin(found)].text
            spaces == { k \in 1..Len(date_string) : date_string[k] = " " }
        IN  IF spaces = {} THEN Err("Date string malformed")
            ELSE parse_from_str(
                     SubSeq(date_string, SetMax(spaces) + 1, Len(date_string)))

----------------------------------------------------------------------------
(* schedule_from_pdf *)

\* HbsTableExtractor::load_from: from_stream of every content stream; order[p]
\* is the order in which the HashSet of stream p is drained
RECURSIVE load_from(_, _, _, _)
load_from(ss, order, p, acc) ==
    IF p > Len(ss) THEN Ok(acc)
    ELSE LET o == from_stream(ss[p]) IN
         IF o.kind # "Ok" THEN o
         ELSE load_from(ss, order, p + 1,
                        Append(acc, Drain(o.val, order[p].r, order[p].rev)))

\* iter().flatten().flatten() : the columns of all tables of all pages
RECURSIVE Flatten(_)
Flatten(ss) == IF ss = <<>> THEN <<>> ELSE Head(ss) \o Flatten(Tail(ss))

\* SubstitutionColumn::from_2d_vec : slot k of the entry from element k of
\* the vector; an empty cell is the absent block
from_2d_vec(v) ==
    IF Len(v) # 6 THEN Err("wrong row count")
    ELSE Ok([k \in 0..5 |-> v[k + 1]])

\* HashMap::entry(key).or_insert(value): a key that is present keeps its value
Insert_or_keep(map, key, value) ==
    [k \in (DOMAIN map) \cup {key} |-> IF k \in DOMAIN map THEN map[k] ELSE value]

\* HashMap::insert
Insert(map, key, value) ==
    [k \in (DOMAIN map) \cup {key} |-> IF k = key THEN value ELSE map[k]]

\* the for loop of schedule_from_pdf over the columns
RECURSIVE insert_entries(_, _, _)
insert_entries(cols, k, map) ==
    IF k > Len(cols) THEN Ok(map)
    ELSE LET column == cols[k]
             e == from_2d_vec(SubSeq(column, 1, 6))
         IN  IF column[1] = <<>> THEN Panic("index out of bounds")
             ELSE IF e.kind # "Ok" THEN e
             ELSE insert_entries(cols, k + 1, Insert(map, column[1][1], e.val))

NoEntries == [k \in {} |-> <<>>]

\* what the caller of schedule_from_pdf gets
Returned(k, e, date, map) ==
    [kind |-> k, err |-> e, pdf_issue_date |-> date, entries |-> map]

\* schedule with the date defaulted instead of propagated:
\* pdf_issue_date: extractor.extract_date().unwrap_or(0)
schedule_unwrap_or(date, map) ==
    Returned("Ok", "", IF date.kind = "Ok" THEN date.val ELSE 0, map)

\* Ok(SubstitutionSchedule { pdf_issue_date: extractor.extract_date()?, entries })
schedule(date, map) ==
    IF date.kind = "Ok" THEN Returned("Ok", "", date.val, map)
    ELSE Returned(date.kind, date.err, 0, NoEntries)

\* the `?` after load_from, extract_tables and from_2d_vec
Failed(r) == Returned(r.kind, r.err, 0, NoEntries)

Outcome(r) == [kind |-> r.kind, err |-> r.err]
NotRun == [kind |-> "-", err |-> ""]
NoSteps == [load |-> NotRun, tables |-> NotRun, insert |-> NotRun, date |-> NotRun]

----------------------------------------------------------------------------
(* Inputs of schedule_from_pdf: a reference document and its variations     *)

\* Td x y  Tj (s)
TextOps(s, x, y) ==
    << Operation("Td", 10 * x + 4, 10 * y + 7, <<>>), Operation("Tj", 0, 0, s) >>

\* x1 y1 m  x2 y2 l
LineOps(x1, y1, x2, y2) ==
    << Operation("m", 10 * x1 + 2, 10 * y1 + 5, <<>>),
       Operation("l", 10 * x2 + 9, 10 * y2 + 5, <<>>) >>

\* an operator the reader ignores
Other == << Operation("BT", 0, 0, <<>>) >>

RECURSIVE Rules(_, _, _)
Rules(ys, x1, x2) ==
    IF ys = <<>> THEN <<>>
    ELSE LineOps(x1, Head(ys), x2, Head(ys)) \o Rules(Tail(ys), x1, x2)

Variations ==
    { "tj_first", "l_first", "tj_stray", "l_stray", "no_datum", "datum2",
      "no_block", "no_1515", "low_1515", "no_rule", "tick", "diagonal",
      "above", "cell1", "cell6", "below", "col2", "col2dup", "lone_header",
      "rule60", "edge_header", "bad_date", "p2_datum", "p2_stray",
      "high_1515", "twin" }

On(V, v, ops) == IF v \in V THEN ops ELSE <<>>
Off(V, v, ops) == IF v \in V THEN <<>> ELSE ops

\* the first content stream: one table with the class column 7a, whose seven
\* rules lie at y = 65, 55, .., 5 between x = 20 and x = 40; "high_1515" puts
\* the end mark and the rule under it above the "Block" text
Stream1(V) ==
       On(V, "tj_first", << Operation("Tj", 0, 0, <<"x">>) >>)
    \o On(V, "l_first", << Operation("l", 10, 10, <<>>) >>)
    \o Other
    \o Off(V, "no_datum",
           TextOps(<<"Datum:", " ", "Mo,", " ",
                     IF "bad_date" \in V THEN "heute" ELSE "01.01.2024">>,
                   10, 90))
    \o On(V, "datum2", TextOps(<<"Datum:", " ", "02.01.2024">>, 10, 95))
    \o Off(V, "no_block", TextOps(<<"Block">>, 10, 70))
    \o TextOps(<<"7a">>, IF "edge_header" \in V THEN 20 ELSE 30, 70)
    \o On(V, "tj_stray", Other \o << Operation("Tj", 0, 0, <<"x">>) >>)
    \o Rules(<<65, 55, 45>>, 20, 40)
    \o Off(V, "no_rule", Rules(<<35>>, 20, 40))
    \o Rules(<<25, 15, 5>>, 20, 40)
    \o On(V, "tick", Rules(<<63>>, 20, 40))
    \o On(V, "rule60", Rules(<<60>>, 20, 40))
    \o On(V, "twin", Rules(<<55>>, 25, 35) \o Rules(<<55>>, 20, 40))
    \o On(V, "l_stray", Other \o << Operation("l", 10, 10, <<>>) >>)
    \o IF "no_1515" \in V THEN <<>>
       ELSE TextOps(<<"15:15", " ", "-", " ", "16:45">>,
                    10, IF "low_1515" \in V THEN 4
                        ELSE IF "high_1515" \in V THEN 80 ELSE 10)
    \o On(V, "high_1515", Rules(<<75>>, 20, 40))
    \o On(V, "diagonal", LineOps(42, 20, 48, 30))
    \o On(V, "above", TextOps(<<"Raum">>, 30, 72))
    \o On(V, "cell1", TextOps(<<"Math">>, 30, 60) \o TextOps(<<"Math">>, 30, 60))
    \o On(V, "cell6", TextOps(<<"Bio">>, 30, 8))
    \o On(V, "below", TextOps(<<"Fuss">>, 30, 3))
    \o On(V, "col2", TextOps(<<"7b">>, 50, 70)
                     \o Rules(<<65, 55, 45, 35, 25, 15, 5>>, 41, 60)
                     \o TextOps(<<"Deu">>, 50, 60))
    \o On(V, "col2dup", TextOps(<<"7a">>, 50, 70)
                     \o Rules(<<65, 55, 45, 35, 25, 15, 5>>, 41, 60)
                     \o TextOps(<<"Eng">>, 50, 60))
    \o On(V, "lone_header", TextOps(<<"9z">>, 80, 70))

\* a second content stream, when the document has one
Stream2(V) ==
       On(V, "p2_datum", Other \o TextOps(<<"Datum:", " ", "03.01.2024">>, 10, 90))
    \o On(V, "p2_stray", Other \o << Operation("Tj", 0, 0, <<"x">>) >>)

Streams(V) ==
    IF Stream2(V) = <<>> THEN << Stream1(V) >> ELSE << Stream1(V), Stream2(V) >>

Orders == [r : 0..MaxRot, rev : BOOLEAN]

NotRunRes == [kind |-> "-", err |-> "", val |-> <<>>]

----------------------------------------------------------------------------
(* State machine of one call of schedule_from_pdf, and of a repeated call   *)

\* the column pipeline on its own is not in use
NoSplit == region = <<>> /\ columns = NotRunRes /\ generated = <<>>

Splitter == <<region, columns, generated>>

Idle ==
    /\ page = <<>> /\ regions = NotRunRes
    /\ table = <<>> /\ row = 0 /\ lesson_idx = 0
    /\ tentries = NoEntries /\ tlog = <<>> /\ tpc = "idle"
    /\ NoSplit

\* the sets of at most k variations
RECURSIVE UpTo(_)
UpTo(k) ==
    IF k = 0 THEN {{}}
    ELSE UpTo(k - 1) \cup { V \cup {v} : V \in UpTo(k - 1), v \in Variations }

Init ==
    /\ \E V \in UpTo(MaxToggles) : streams = Streams(V)
    /\ pc = "load" /\ pages = <<>> /\ tables = <<>> /\ entries = NoEntries
    /\ result = Returned("-", "", 0, NoEntries)
    /\ steps = NoSteps
    /\ run = 1 /\ first = Returned("-", "", 0, NoEntries)
    /\ Idle

Side == <<page, regions, table, row, lesson_idx, tentries, tlog, tpc,
         region, columns, generated>>

\* let mut extractor = HbsTableExtractor::load_from(pdf)?;
LoadFrom ==
    /\ pc = "load"
    /\ \E order \in [1..Len(streams) -> Orders] :
         LET r == load_from(streams, order, 1, <<>>) IN
         /\ steps' = [steps EXCEPT !.load = Outcome(r)]
         /\ IF r.kind = "Ok"
            THEN pages' = r.val /\ pc' = "tables" /\ UNCHANGED result
            ELSE pc' = "done" /\ result' = Failed(r) /\ UNCHANGED pages
    /\ UNCHANGED <<streams, tables, entries, run, first, Side>>

\* extractor.extract_tables()?
ExtractTables ==
    /\ pc = "tables"
    /\ LET r == extract_tables(pages) IN
         /\ steps' = [steps EXCEPT !.tables = Outcome(r)]
         /\ IF r.kind = "Ok"
            THEN tables' = r.val /\ pc' = "insert" /\ UNCHANGED result
            ELSE pc' = "done" /\ result' = Failed(r) /\ UNCHANGED tables
    /\ UNCHANGED <<streams, pages, entries, run, first, Side>>

\* for column in ... { entries.insert(column[0][0].clone(), from_2d_vec(..)?) }
InsertEntries ==
    /\ pc = "insert"
    /\ LET r == insert_entries(Flatten(Flatten(tables)), 1, NoEntries) IN
         /\ steps' = [steps EXCEPT !.insert = Outcome(r)]
         /\ IF r.kind = "Ok"
            THEN entries' = r.val /\ pc' = "date" /\ UNCHANGED result
            ELSE pc' = "done" /\ result' = Failed(r) /\ UNCHANGED entries
    /\ UNCHANGED <<streams, pages, tables, run, first, Side>>

\* Ok(SubstitutionSchedule { pdf_issue_date: extractor.extract_date()?, entries })
ExtractDate ==
    /\ pc = "date"
    /\ LET d == extract_date(pages) IN
         /\ steps' = [steps EXCEPT !.date = Outcome(d)]
         /\ result' = schedule(d, entries)
    /\ pc' = "done"
    /\ UNCHANGED <<streams, pages, tables, entries, run, first, Side>>

\* the caller runs schedule_from_pdf a second time on the same bytes
Again ==
    /\ pc = "done" /\ run = 1
    /\ run' = 2 /\ first' = result
    /\ pc' = "load" /\ pages' = <<>> /\ tables' = <<>> /\ entries' = NoEntries
    /\ result' = Returned("-", "", 0, NoEntries)
    /\ steps' = NoSteps
    /\ UNCHANGED <<streams, Side>>

Next == LoadFrom \/ ExtractTables \/ InsertEntries \/ ExtractDate \/ Again

Spec == Init /\ [][Next]_vars

----------------------------------------------------------------------------
(* Properties of schedule_from_pdf *)

Done == pc = "done"

\* the columns handed to the insert loop, in page, region, column order
Columns == Flatten(Flatten(tables))

\* the regions of page p as extract_tables sees them
RegionsOfPage(p) == extract_table_objects(pages[p])

\* C1: schedule_from_pdf is all-or-nothing. A Schedule is returned only when
\* from_stream succeeded on every content stream, extract_table_objects on
\* every page, generate_column on every column and extract_date; when a step
\* returned an error the caller gets exactly that error, and whatever is
\* returned in place of a Schedule carries no entries.
C1_AllOrNothing ==
    Done =>
      /\ result.kind = "Ok" =>
           /\ \A p \in 1..Len(streams) : from_stream(streams[p]).kind = "Ok"
           /\ \A p \in 1..Len(pages) :
                /\ RegionsOfPage(p).kind = "Ok"
                /\ \A r \in 1..Len(RegionsOfPage(p).val) :
                     LET cols == extract_columns(RegionsOfPage(p).val[r]) IN
                     /\ cols.kind = "Ok"
                     /\ \A c \in 1..Len(cols.val) :
                          generate_column(cols.val[c]).kind = "Ok"
           /\ extract_date(pages).kind = "Ok"
           /\ result.entries = entries
      /\ \A s \in DOMAIN steps :
           steps[s].kind = "Err" => result = Returned("Err", steps[s].err, 0, NoEntries)
      /\ result.kind # "Ok" => result.entries = NoEntries

\* the date step failed after the entries map had been filled
C1_Witness ==
    /\ Done /\ steps.date.kind = "Err" /\ DOMAIN entries # {}
    /\ result.kind = "Err"

\* C2: every column that becomes a schedule entry fills slot k of the entry
\* from cell k + 1 of its seven cells (k = 0..5): the header cell feeds no
\* slot and the last cell reaches slot 5. (A column whose key is inserted
\* again later is replaced and is not looked at.)
C2_SlotsFromCells1To6 ==
    steps.insert.kind = "Ok" =>
      \A i \in 1..Len(Columns) :
        (\A j \in (i + 1)..Len(Columns) : Columns[j][1][1] # Columns[i][1][1])
        => \A k \in 0..5 : entries[Columns[i][1][1]][k] = Columns[i][k + 2]

\* C3: the key under which a column's entry is stored is the text of the
\* header from which extract_columns created the column.
C3_KeyIsHeaderText ==
    steps.tables.kind = "Ok" =>
      \A p \in 1..Len(pages) :
        \A r \in 1..Len(RegionsOfPage(p).val) :
          LET cols == extract_columns(RegionsOfPage(p).val[r]).val IN
          \A c \in 1..Len(cols) :
            tables[p][r][c][1][1] = cols[c].header.text

\* C4: a second call of schedule_from_pdf on the same input returns a result
\* structurally equal to the first one, whatever order the object sets were
\* drained in.
C4_Deterministic ==
    (Done /\ run = 2) => result = first

\* C5: a stream in which some Tj is not preceded by a Td, or some l is not
\* preceded by an m, the first operation of the stream included, makes
\* from_stream return a parse-sequence error value, and no page objects exist.
C5_SequenceErrorIsReturned ==
    (pc # "load" /\ \E p \in 1..Len(streams) : Leaves(streams[p]) # {})
    => /\ steps.load.kind = "Err"
       /\ steps.load.err \in {"Td expected before Tj", "m expected before l"}
       /\ pages = <<>>

\* an m-then-l pair whose start and end differ on both axes
Diagonal(ops, i) ==
    /\ i > 1 /\ ops[i].operator = "l" /\ ops[i - 1].operator = "m"
    /\ as_i64(ops[i - 1].a) # as_i64(ops[i].a)
    /\ as_i64(ops[i - 1].b) # as_i64(ops[i].b)

HasDiagonal ==
    \E p \in 1..Len(streams) : \E i \in 1..Len(streams[p]) : Diagonal(streams[p], i)

\* C6: an input that contains a diagonal segment makes the extraction fail;
\* no Schedule is returned for it.
C6_DiagonalIsFatal ==
    (Done /\ HasDiagonal) => result.kind # "Ok"

\* no text item of the input contains "Datum: "
NoDatum ==
    \A p \in 1..Len(streams) : \A i \in 1..Len(streams[p]) :
        streams[p][i].operator = "Tj"
        => ~Contains2(streams[p][i].s, "Datum:", " ")

DateNotFound ==
    Returned("Err", "Couldn't find the date string in PDF", 0, NoEntries)

\* C7 as stated: every input without a "Datum: " text makes schedule_from_pdf
\* fail with the date-not-found error, and not with any other error or a
\* Schedule.
C7_AlwaysDateNotFound ==
    (Done /\ NoDatum /\ result.kind \in {"Ok", "Err"}) => result = DateNotFound

\* C7 as amended: an input without a "Datum: " text never yields a Schedule;
\* it fails with the date-not-found error whenever load_from, extract_tables
\* and the insert loop succeeded, and otherwise ends with the outcome of the
\* step that failed before the date was looked for.
C7_DateNotFoundAfterTables ==
    (Done /\ NoDatum) =>
      /\ result.kind # "Ok"
      /\ steps.insert.kind = "Ok" => result = DateNotFound
      /\ steps.insert.kind # "Ok" => steps.date.kind = "-"

C7_Witness ==
    /\ Done /\ NoDatum /\ steps.insert.kind = "Ok" /\ DOMAIN entries # {}
    /\ result = DateNotFound

----------------------------------------------------------------------------
(* The insert loop of schedule_from_pdf on its own: the call from the point *)
(* where extract_tables has returned its Vec<Page>                          *)

\* extract_tables returned at most this many columns in all
MaxCols == 4

Classes == { <<"7a">>, <<"7b">>, <<"8a">> }

\* the i-th column of the document: its header cell reads the class name,
\* its first data cell names i, the other five cells are empty
ColumnNo(i, class) ==
    << <<class>>, << <<"col", ToString(i)>> >>, <<>>, <<>>, <<>>, <<>>, <<>> >>

\* the column goes into the last table of the last page, or opens a new
\* table on that page, or opens a new page
Place(t, col, where) ==
    LET P == Len(t)
        R == Len(t[P])
    IN  IF where = "column"
        THEN [t EXCEPT ![P][R] = Append(@, col)]
        ELSE IF where = "region"
        THEN [t EXCEPT ![P] = Append(@, <<col>>)]
        ELSE Append(t, << <<col>> >>)

\* the Vec<Page> whose columns are, in page, region, column order, the
\* columns 1..n with the class names key[i], column i + 1 placed after
\* column i as gap[i] says
RECURSIVE Pages(_, _, _)
Pages(n, key, gap) ==
    IF n = 0 THEN <<>>
    ELSE IF n = 1 THEN << << << ColumnNo(1, key[1]) >> >> >>
    ELSE Place(Pages(n - 1, key, gap), ColumnNo(n, key[n]), gap[n - 1])

\* the one text extract_date looks for; the other objects of the pages play
\* no part once extract_tables has returned
DatePage == << << Text(<<"Datum:", " ", "01.01.2024">>, 10, 90) >> >>

InitInsert ==
    /\ \E n \in 0..MaxCols : \E key \in [1..n -> Classes] :
       \E gap \in [1..(n - 1) -> {"column", "region", "page"}] :
          tables = Pages(n, key, gap)
    /\ streams = <<>> /\ pc = "insert" /\ pages = DatePage
    /\ entries = NoEntries /\ result = Returned("-", "", 0, NoEntries)
    /\ steps = [NoSteps EXCEPT !.load = Outcome(Ok(<<>>)),
                                !.tables = Outcome(Ok(<<>>))]
    /\ run = 1 /\ first = Returned("-", "", 0, NoEntries)
    /\ Idle

NextInsert == InsertEntries \/ ExtractDate

SpecInsert == InitInsert /\ [][NextInsert]_vars

\* the key under which the insert loop stores column i, and the entry it
\* builds from it
Key(i) == Columns[i][1][1]
EntryOf(i) == from_2d_vec(SubSeq(Columns[i], 1, 6)).val

\* C11: when several columns carry the same class name, the map keeps one
\* entry for it, the one built from the last of them in page, then region,
\* then column order; the entries of the earlier columns are gone. The keys
\* of the map are exactly the class names of the columns.
C11_LastWriterWins ==
    steps.insert.kind = "Ok" =>
      /\ DOMAIN entries = { Key(i) : i \in 1..Len(Columns) }
      /\ \A i \in 1..Len(Columns) :
            (\A j \in (i + 1)..Len(Columns) : Key(j) # Key(i))
            => entries[Key(i)] = EntryOf(i)
      /\ Done => (result.kind = "Ok" /\ result.entries = entries)

\* the place of a class name: the columns of that name as (page, region,
\* column) positions
Places(class) ==
    { pos \in (1..MaxCols) \X (1..MaxCols) \X (1..MaxCols) :
        /\ pos[1] <= Len(tables) /\ pos[2] <= Len(tables[pos[1]])
        /\ pos[3] <= Len(tables[pos[1]][pos[2]])
        /\ tables[pos[1]][pos[2]][pos[3]][1][1] = class }

\* a Schedule was returned for a document in which one class name heads a
\* column on the first page, a later column in another region of that page
\* and a column on the second page; its entry is the one of the second page
C11_Witness ==
    /\ Done /\ result.kind = "Ok"
    /\ \E class \in Classes : \E a, b, c \in Places(class) :
          /\ a[1] = 1 /\ b[1] = 1 /\ a[2] < b[2] /\ c[1] = 2
          /\ \A d \in Places(class) : d[1] < 2 \/ d = c
          /\ result.entries[class][1] = tables[c[1]][c[2]][c[3]][2]
          /\ result.entries[class][1] # tables[b[1]][b[2]][b[3]][2]

\* extract_table_objects succeeded on every page of the call, so that
\* extract_tables goes on to the columns
RegionsFound ==
    /\ steps.load.kind = "Ok"
    /\ \A p \in 1..Len(pages) : RegionsOfPage(p).kind = "Ok"

\* the regions of the call
FoundRegions ==
    UNION { { RegionsOfPage(p).val[r] : r \in 1..Len(RegionsOfPage(p).val) } :
            p \in 1..Len(pages) }

HasBlock(reg) == \E k \in 1..Len(reg) : reg[k].kind = "Text" /\ reg[k].text = <<"Block">>

\* C18: when some region holds no text equal to "Block", the caller of
\* schedule_from_pdf gets an error value.
C18_HeaderMissingIsReturned ==
    (Done /\ RegionsFound /\ \E reg \in FoundRegions : ~HasBlock(reg))
    => result.kind = "Err"

\* the texts of a region that extract_columns takes as column headers
HeadersOf(reg) ==
    LET Y == (CHOOSE t \in { reg[k] : k \in 1..Len(reg) } :
                  t.kind = "Text" /\ t.text = <<"Block">>).sy
    IN  { t \in { reg[k] : k \in 1..Len(reg) } :
            /\ t.kind = "Text" /\ t.text # <<"Block">>
            /\ t.sy < Y + 2 /\ t.sy > Y - 2 }

\* a horizontal line of the region covers x
Covered(reg, x) ==
    \E k \in 1..Len(reg) :
        /\ reg[k].kind = "Line" /\ reg[k].sy = reg[k].ey
        /\ reg[k].sx <= x /\ x <= reg[k].ex

\* C19: when some column header has no horizontal line of its region that
\* covers the header's x, the caller of schedule_from_pdf gets an error value.
C19_ColumnEmptyIsReturned ==
    (Done /\ RegionsFound
          /\ \A reg \in FoundRegions : HasBlock(reg)
          /\ \E rg \in FoundRegions : \E h \in HeadersOf(rg) : ~Covered(rg, h.sx))
    => result.kind = "Err"

----------------------------------------------------------------------------
(* The region finder on its own: extract_table_objects on one PageObjects   *)

EndText == <<"15:15", " ", "-", " ", "16:45">>

\* two tables one above the other (Block at 70 and 40, "15:15" at 50 and 10,
\* rules at 45 and 5), a rule on the lower end mark, a vertical line through
\* both tables, texts on the bounds 74 and 41 of the upper table
RegionPool ==
    << Text(<<"Block">>, 10, 70), Text(EndText, 10, 50),
       Text(<<"Block">>, 10, 40), Text(EndText, 10, 10),
       Line(0, 45, 60, 45), Line(0, 5, 60, 5), Line(0, 10, 60, 10),
       Line(0, 5, 0, 65), Text(<<"x">>, 30, 74), Text(<<"y">>, 30, 41) >>

\* the elements of s at the indices in S, in the order of s
Pick(s, S) == [k \in 1..Cardinality(S) |-> s[Nth(S, k)]]

NoCall ==
    /\ streams = <<>> /\ pc = "idle" /\ pages = <<>> /\ tables = <<>>
    /\ entries = NoEntries /\ result = Returned("-", "", 0, NoEntries)
    /\ steps = NoSteps /\ run = 0 /\ first = Returned("-", "", 0, NoEntries)

Call == <<streams, pc, pages, tables, entries, result, steps, run, first>>

Assembler == <<table, row, lesson_idx, tentries, tlog, tpc>>

InitRegion ==
    /\ \E S \in SUBSET (1..Len(RegionPool)) : \E rev \in BOOLEAN :
          /\ Cardinality(S) <= MaxPageObjects
          /\ page = Drain(Pick(RegionPool, S), 0, rev)
    /\ regions = NotRunRes
    /\ NoCall
    /\ table = <<>> /\ row = 0 /\ lesson_idx = 0
    /\ tentries = NoEntries /\ tlog = <<>> /\ tpc = "idle"
    /\ NoSplit

FindRegions ==
    /\ regions.kind = "-"
    /\ regions' = extract_table_objects(page)
    /\ UNCHANGED <<page, Call, Assembler, Splitter>>

NextRegion == FindRegions

SpecRegion == InitRegion /\ [][NextRegion]_vars

\* the texts of the page that are "Block" / contain "15:15"
BlockTexts == { k \in 1..Len(page) :
                  page[k].kind = "Text" /\ page[k].text = <<"Block">> }

EndTexts == { k \in 1..Len(page) :
                page[k].kind = "Text" /\ Contains1(page[k].text, "15:15") }

\* the start.y of the horizontal lines strictly below y
RulesBelow(y) == { page[k].sy : k \in { j \in 1..Len(page) :
                     /\ page[j].kind = "Line" /\ page[j].sy = page[j].ey
                     /\ page[j].sy < y } }

\* the i-th smallest of the values f[k], k in S, counted with repetitions
IthSmallest(f, S, i) ==
    CHOOSE v \in { f[k] : k \in S } :
        /\ Cardinality({ k \in S : f[k] < v }) < i
        /\ i <= Cardinality({ k \in S : f[k] <= v })

\* every y of the object strictly inside the band
InBand(o, top, bottom) ==
    /\ o.sy < top /\ o.sy > bottom
    /\ o.kind = "Line" => (o.ey < top /\ o.ey > bottom)

\* C8: regions of one page never overlap: when extract_table_objects
\* succeeds, no page object lies in two different regions.
C8_RegionsDisjoint ==
    regions.kind = "Ok" =>
      \A i, j \in 1..Len(regions.val) :
        i # j => \A a \in 1..Len(regions.val[i]) :
                   ~InSeq(regions.val[i][a], regions.val[j])

\* C9: extract_table_objects returns an error when the number of "Block"
\* texts differs from the number of "15:15" texts or when some "15:15" text
\* has no horizontal line strictly below it; otherwise it returns one region
\* per "Block" text, region i holding exactly the objects between the i-th
\* smallest top bound and the bound under the i-th smallest "15:15" text.
C9_RegionPerBlock ==
    regions.kind # "-" =>
      LET ys == [k \in 1..Len(page) |-> page[k].sy] IN
      IF \/ Cardinality(BlockTexts) # Cardinality(EndTexts)
         \/ \E k \in EndTexts : RulesBelow(ys[k]) = {}
      THEN regions.kind = "Err"
      ELSE /\ regions.kind = "Ok"
           /\ Len(regions.val) = Cardinality(BlockTexts)
           /\ \A i \in 1..Len(regions.val) :
                LET top == IthSmallest(ys, BlockTexts, i) + 4
                    bottom == SetMax(RulesBelow(IthSmallest(ys, EndTexts, i))) - 4
                IN  \A k \in 1..Len(page) :
                      InSeq(page[k], regions.val[i]) <=> InBand(page[k], top, bottom)

\* two regions with different bottom rules were returned for a page that
\* lists the upper end mark first
C9_Witness ==
    /\ regions.kind = "Ok" /\ Len(regions.val) = 2
    /\ regions.val[1] # <<>> /\ regions.val[2] # <<>>
    /\ \E a, b \in EndTexts :
          /\ a < b /\ page[a].sy > page[b].sy
          /\ SetMax(RulesBelow(page[a].sy)) # SetMax(RulesBelow(page[b].sy))

\* every y coordinate a page object has
YsOf(o) == IF o.kind = "Text" THEN {o.sy} ELSE {o.sy, o.ey}

PageYs == [k \in 1..Len(page) |-> page[k].sy]

\* top_i = y(Block_i) + 4; r_i, the greatest start.y of the horizontal lines
\* strictly below the i-th "15:15" text; bottom_i = r_i - 4
TopOf(i) == IthSmallest(PageYs, BlockTexts, i) + 4
RuleOf(i) == SetMax(RulesBelow(IthSmallest(PageYs, EndTexts, i)))
BottomOf(i) == RuleOf(i) - 4

\* membership is strict on both bounds: page[k] is in region i exactly when
\* all its y coordinates lie strictly between bottom_i and top_i; a text on
\* a bound and a line with an endpoint outside are not in the region
StrictMembership(i) ==
    \A k \in 1..Len(page) :
        /\ InSeq(page[k], regions.val[i])
           <=> \A y \in YsOf(page[k]) : y < TopOf(i) /\ y > BottomOf(i)
        /\ (page[k].kind = "Text" /\ page[k].sy \in {TopOf(i), BottomOf(i)})
           => ~InSeq(page[k], regions.val[i])
        /\ (page[k].kind = "Line"
              /\ \E y \in YsOf(page[k]) : y >= TopOf(i) \/ y <= BottomOf(i))
           => ~InSeq(page[k], regions.val[i])

\* the horizontal lines at r_i
RulesAt(i) == { k \in 1..Len(page) :
                  /\ page[k].kind = "Line" /\ page[k].sy = page[k].ey
                  /\ page[k].sy = RuleOf(i) }

\* C20 as stated: membership in region i is strict on both bounds, and the
\* rule at r_i itself is in region i.
C20_RuleAlwaysIncluded ==
    regions.kind = "Ok" =>
      \A i \in 1..Len(regions.val) :
        /\ StrictMembership(i)
        /\ \A k \in RulesAt(i) : InSeq(page[k], regions.val[i])

\* C20 as amended: membership in region i is strict on both bounds, and the
\* rule at r_i is in region i exactly when it lies below the top bound,
\* r_i < top_i.
C20_StrictBounds ==
    regions.kind = "Ok" =>
      \A i \in 1..Len(regions.val) :
        /\ StrictMembership(i)
        /\ \A k \in RulesAt(i) :
              InSeq(page[k], regions.val[i]) <=> RuleOf(i) < TopOf(i)

\* a region was returned that holds its rule r_i and leaves out a text on its
\* top bound, a text on its bottom bound and a line that ends below the
\* bottom bound
C20_Witness ==
    /\ regions.kind = "Ok"
    /\ \E i \in 1..Len(regions.val) :
          /\ \E k \in RulesAt(i) : InSeq(page[k], regions.val[i])
          /\ \E k \in 1..Len(page) :
                /\ page[k].kind = "Text" /\ page[k].sy = TopOf(i)
                /\ ~InSeq(page[k], regions.val[i])
          /\ \E k \in 1..Len(page) :
                /\ page[k].kind = "Text" /\ page[k].sy = BottomOf(i)
                /\ ~InSeq(page[k], regions.val[i])
          /\ \E k \in 1..Len(page) :
                /\ page[k].kind = "Line" /\ page[k].sy <= BottomOf(i)
                /\ page[k].ey > BottomOf(i) /\ page[k].ey < TopOf(i)
                /\ ~InSeq(page[k], regions.val[i])

----------------------------------------------------------------------------
(* TabulaParser::table_to_substitutions, one loop iteration per step        *)
(* (SubstitutionSchedule::table_to_substitutions of main.rs is the same     *)
(* loop with the texts of a block joined by "\n")                           *)

\* str::starts_with(char)
starts_with(s, c) == s # <<>> /\ s[1] = c

\* SubstitutionColumn::new()
new == [k \in 0..5 |-> <<>>]

\* the block always replaced by the new part:
\* let _ = block_option.insert(Substitution(vec![part]))
push_part_overwrite(block, part) ==
    IF part # <<>> THEN <<part>> ELSE block

\* if !part.is_empty() { if let Some(block) .. push .. else .. insert .. }
push_part(block, part) ==
    IF part # <<>> THEN Append(block, part) ELSE block

\* let classes = &table[0][1..];
classes(t) == Tail(t[1])

\* the for loop over table[row][1..] from cell i on; r is the 0-based row index
RECURSIVE consume_from(_, _, _, _, _)
consume_from(t, r, idx, i, map) ==
    IF i > Len(t[r + 1]) - 1 THEN map
    ELSE consume_from(t, r, idx, i + 1,
             [map EXCEPT ![classes(t)[i]][idx] = push_part(@, t[r + 1][i + 1])])

\* the block chosen one further: 0 => block_1, .., 4 => block_5
consume_next_block(t, r, idx, map) == consume_from(t, r, idx + 1, 1, map)

consume(t, r, idx, map) == consume_from(t, r, idx, 1, map)

ClassNames == << <<"7a">>, <<"7b">> >>

Labels == { <<"1">>, <<"-", "2">> }

\* the cell of data row r under class i: empty, or a text naming r and i
Cell(r, i, filled) == IF filled THEN <<ToString(r), ClassNames[i][1]>> ELSE <<>>

\* which cells of a data row carry text: those of the first m classes
Fills == { [i \in 1..Len(ClassNames) |-> i <= m] : m \in 0..Len(ClassNames) }

\* rectangular tables: the header row and n data rows
Tables(n) ==
    { << <<<<"Block">>>> \o ClassNames >> \o
      [r \in 1..n |-> <<lab[r]>> \o [i \in 1..Len(ClassNames) |-> Cell(r, i, f[r][i])]] :
        lab \in [1..n -> Labels], f \in [1..n -> Fills] }

InitTable ==
    /\ \E n \in 0..MaxRows : table \in Tables(n)
    /\ row = 0 /\ lesson_idx = 0 /\ tentries = NoEntries /\ tlog = <<>>
    /\ tpc = "start"
    /\ NoCall
    /\ page = <<>> /\ regions = NotRunRes
    /\ NoSplit

\* entries.insert(class, SubstitutionColumn::new()) for every class; row = 1
Begin ==
    /\ tpc = "start"
    /\ tentries' = [c \in { classes(table)[i] : i \in 1..Len(classes(table)) } |-> new]
    /\ row' = 1 /\ lesson_idx' = 0 /\ tpc' = "loop"
    /\ UNCHANGED <<table, tlog, Call, page, regions, Splitter>>

\* one iteration of `loop`: the row is read into block lesson_idx; a label
\* starting with '-' breaks out of the loop, and the for loop goes on to the
\* next lesson_idx (or ends after lesson_idx 4)
ConsumeRow ==
    /\ tpc = "loop" /\ row < Len(table)
    /\ tentries' = consume(table, row, lesson_idx, tentries)
    /\ tlog' = Append(tlog, [row |-> row, block |-> lesson_idx])
    /\ row' = row + 1
    /\ IF starts_with(table[row + 1][1], "-")
       THEN /\ lesson_idx' = lesson_idx + 1
            /\ tpc' = IF lesson_idx + 1 < 5 THEN "loop" ELSE "done"
       ELSE UNCHANGED <<lesson_idx, tpc>>
    /\ UNCHANGED <<table, Call, page, regions, Splitter>>

\* table[row] past the last row: index out of bounds
RowOutOfBounds ==
    /\ tpc = "loop" /\ row >= Len(table)
    /\ tpc' = "panic"
    /\ UNCHANGED <<table, row, lesson_idx, tentries, tlog, Call, page, regions,
                   Splitter>>

NextTable == Begin \/ ConsumeRow \/ RowOutOfBounds

SpecTable == InitTable /\ [][NextTable]_vars

\* the label cell of data row r
Label(r) == table[r + 1][1]

\* the data rows before row r whose label starts with '-'
DashesBefore(r) == Cardinality({ q \in 1..(r - 1) : starts_with(Label(q), "-") })

\* C10 as stated: a data row whose label does not start with '-' starts the
\* next block (the first data row starts block 0), and a data row whose label
\* starts with '-' goes to the same block as the row before it.
C10_DashContinues ==
    \A k \in 1..Len(tlog) :
        IF k = 1 THEN tlog[k].block = 0
        ELSE IF starts_with(Label(tlog[k].row), "-")
             THEN tlog[k].block = tlog[k - 1].block
             ELSE tlog[k].block = tlog[k - 1].block + 1

\* the non-empty cells under class i of the consumed rows that belong to
\* block b, in row order
CellsOfBlock(i, b) ==
    LET rows == SelectSeq([r \in 1..Len(tlog) |-> r],
                          LAMBDA r : DashesBefore(r) = b /\ table[r + 1][i + 1] # <<>>)
    IN  [k \in 1..Len(rows) |-> table[rows[k] + 1][i + 1]]

\* C10 as amended: the rows are consumed in order, and the block of a row is
\* the number of rows before it whose label starts with '-': a row that
\* follows a row without '-' joins that row's block whatever its own label,
\* a row that follows a '-' row starts the next block, and the block index
\* advances only after a '-' row. The non-empty class cells of a row are
\* appended after the texts already in that block.
C10_DashEndsBlock ==
    tpc # "start" =>
      /\ \A k \in 1..Len(tlog) :
            tlog[k].row = k /\ tlog[k].block = DashesBefore(k)
      /\ lesson_idx = DashesBefore(row)
      /\ \A i \in 1..Len(ClassNames) : \A b \in 0..5 :
            tentries[ClassNames[i]][b] = CellsOfBlock(i, b)

\* a '-' row has been appended to the block of the row before it, after the
\* text of that row, and a later row has started the next block
C10_Witness ==
    \E k \in 2..Len(tlog) : \E i \in 1..Len(ClassNames) :
        /\ starts_with(Label(k), "-") /\ ~starts_with(Label(k - 1), "-")
        /\ tlog[k].block = tlog[k - 1].block
        /\ Len(tentries[ClassNames[i]][tlog[k].block]) = 2
        /\ Len(tlog) > k /\ tlog[k + 1].block = tlog[k].block + 1

\* C23: for a table with a header row and at least one data row the row
\* index that table_to_substitutions reads never goes past the last row,
\* whatever the label cells contain.
C23_RowInBounds ==
    Len(table) >= 2 => tpc # "panic"

\* C24: table_to_substitutions uses the block indices 0..4 only: slot 5 of
\* every class stays absent, every consumed row is read into a block of
\* 0..4, and every non-empty class cell of a consumed row is in one of the
\* slots 0..4 of its class.
C24_BlocksZeroToFour ==
    tpc # "start" =>
      /\ \A c \in DOMAIN tentries : tentries[c][5] = <<>>
      /\ \A k \in 1..Len(tlog) :
            /\ tlog[k].block \in 0..4
            /\ \A i \in 1..Len(classes(table)) :
                  LET part == table[tlog[k].row + 1][i + 1] IN
                  part # <<>>
                  => \E b \in 0..4 : InSeq(part, tentries[classes(table)[i]][b])

\* the function has returned its entries after a row was read into block 4
\* with text for some class
C24_Witness ==
    /\ tpc = "done"
    /\ \E c \in DOMAIN tentries : tentries[c][4] # <<>> /\ tentries[c][5] = <<>>
    /\ \E k \in 1..Len(tlog) : tlog[k].block = 4

----------------------------------------------------------------------------
(* The column pipeline on its own: extract_columns on one region, then      *)
(* generate_column on its columns as extract_tables runs it                 *)

\* at most this many tick marks are drawn into the first cell of column 7a
MaxTicks == 5
\* at most this many texts are placed besides the headers
MaxTexts == 2

\* the rules of column 7a (x 20..40) and of column 7b (x 41..60)
SeparatorYs == <<65, 55, 45, 35, 25, 15, 5>>

\* short segments between the rules at 65 and 55
TickYs == {64, 63, 62, 61, 60, 59}

\* a text in the first data cell, one between the tick marks, one whose y is
\* the x of header 7a, one under 7b whose y is the x of header 7a, one below
\* the lowest rule
TextPool ==
    { Text(<<"Math">>, 30, 60), Text(<<"Bio">>, 30, 58), Text(<<"Deu">>, 30, 30),
      Text(<<"Eng">>, 50, 30), Text(<<"Fuss">>, 30, 3) }

\* the elements of a set of objects as a sequence, texts and lines each by
\* descending y (an order the drain of the set may produce)
RECURSIVE AsSeq(_)
AsSeq(S) ==
    IF S = {} THEN <<>>
    ELSE LET o == CHOOSE a \in S : \A b \in S : a.sy >= b.sy
         IN  <<o>> \o AsSeq(S \ {o})

\* one region: "Block", header 7a with the upper n of its rules, the ticks
\* at the ys in T, a short second segment on the rule at 55 if twin, column
\* 7b with its seven rules if second, and the texts in X
Region(n, T, twin, second, X) ==
       << Text(<<"Block">>, 10, 70), Text(<<"7a">>, 30, 70) >>
    \o [k \in 1..n |-> Line(20, SeparatorYs[k], 40, SeparatorYs[k])]
    \o AsSeq({ Line(25, y, 35, y) : y \in T })
    \o (IF twin THEN << Line(28, 55, 32, 55) >> ELSE <<>>)
    \o (IF second
        THEN << Text(<<"7b">>, 50, 70) >> \o
             [k \in 1..7 |-> Line(41, SeparatorYs[k], 60, SeparatorYs[k])]
        ELSE <<>>)
    \o AsSeq(X)

InitColumn ==
    /\ \E n \in 0..7 : \E T \in SUBSET TickYs : \E twin, second, rev \in BOOLEAN :
       \E X \in SUBSET TextPool :
          /\ Cardinality(T) <= MaxTicks /\ Cardinality(X) <= MaxTexts
          /\ region = Drain(Region(n, T, twin, second, X), 0, rev)
    /\ columns = NotRunRes /\ generated = <<>>
    /\ NoCall
    /\ page = <<>> /\ regions = NotRunRes
    /\ table = <<>> /\ row = 0 /\ lesson_idx = 0
    /\ tentries = NoEntries /\ tlog = <<>> /\ tpc = "idle"

\* t.extract_columns()
ExtractColumns ==
    /\ columns.kind = "-"
    /\ columns' = extract_columns(region)
    /\ UNCHANGED <<region, generated, Call, page, regions, Assembler>>

\* tt.drain(..).map(|mut t| t.generate_column()).collect::<Result<..>>():
\* the next column is split unless an earlier one did not yield Ok
GenerateColumn ==
    /\ columns.kind = "Ok" /\ Len(generated) < Len(columns.val)
    /\ \A k \in 1..Len(generated) : generated[k].kind = "Ok"
    /\ generated' = Append(generated,
                           generate_column(columns.val[Len(generated) + 1]))
    /\ UNCHANGED <<region, columns, Call, page, regions, Assembler>>

NextColumn == ExtractColumns \/ GenerateColumn

SpecColumn == InitColumn /\ [][NextColumn]_vars

\* the horizontal lines of a column's bag, sorted as generate_column sorts them
HLines(col) ==
    SortDescY(SelectSeq(lines(col.column), LAMBDA l : dy(l) = 0))

\* the lines that pass the spacing filter (for a bag of at least seven lines)
Kept(col) == lines(cleaned(SelectSeq(col.column,
                               LAMBDA o : ~(o.kind = "Line" /\ dy(o) # 0))))

LineCountWrong == Err("not exactly 7 lines")

\* C12: whatever the number of horizontal lines attached to a column,
\* generate_column succeeds with exactly seven retained lines or returns the
\* line-count error as a value; in particular a column with fewer than seven
\* lines gets the line-count error.
C12_LineCountIsChecked ==
    \A k \in 1..Len(generated) :
        LET col == columns.val[k] IN
        /\ generated[k].kind = "Ok" => Len(Kept(col)) = 7
        /\ Len(HLines(col)) < 7 => generated[k] = LineCountWrong
        /\ (Len(HLines(col)) >= 7 /\ Len(Kept(col)) # 7)
           => generated[k] = LineCountWrong

\* the ys in Y are six evenly spaced separators and five more ys that all
\* lie strictly inside one and the same cell
SixPlusFiveTicks(Y) ==
    /\ Cardinality(Y) = 11
    /\ \E S \in SUBSET Y :
         /\ Cardinality(S) = 6
         /\ \E d \in 1..100 : \A a \in S :
               a = SetMin(S) \/ (a - d) \in S
         /\ \E a, b \in S :
               /\ a > b /\ ~\E c \in S : b < c /\ c < a
               /\ \A t \in Y \ S : b < t /\ t < a

\* C13: a column whose bag holds eleven horizontal segments, six separators
\* at evenly spaced y and five tick marks inside one cell, keeps exactly
\* seven lines after the spacing filter and is not rejected by the line-count
\* check.
C13_TicksFiltered ==
    \A k \in 1..Len(generated) :
        LET ls == HLines(columns.val[k]) IN
        (Len(ls) = 11 /\ SixPlusFiveTicks({ ls[j].sy : j \in 1..Len(ls) }))
        => /\ Len(Kept(columns.val[k])) = 7
           /\ generated[k] # LineCountWrong

\* the texts of a column's bag
BagTexts(col) == { col.column[j] : j \in { i \in 1..Len(col.column) :
                                             col.column[i].kind = "Text" } }

\* C14: two columns of a region whose x-extents (start, end) are disjoint
\* share no text item in their bags.
C14_ExclusiveColumns ==
    columns.kind = "Ok" =>
      \A a, b \in 1..Len(columns.val) :
        LET A == columns.val[a]
            B == columns.val[b]
        IN  (a # b /\ (end(A.column) < start(B.column)
                        \/ end(B.column) < start(A.column)))
            => BagTexts(A) \cap BagTexts(B) = {}

\* the y of the text item of the region that reads s (the texts of the
\* region read differently from one another)
YOf(s) == (CHOOSE t \in { region[j] : j \in 1..Len(region) } :
               t.kind = "Text" /\ t.text = s).sy

\* C15: a text item of the region contributes at most one entry to the cells
\* of a column, and the entries of a cell are in non-increasing y.
C15_TextOncePerColumn ==
    \A k \in 1..Len(generated) :
        generated[k].kind = "Ok" =>
          LET cs == generated[k].val IN
          /\ \A c, e \in 1..7 : \A i \in 1..Len(cs[c]) : \A j \in 1..Len(cs[e]) :
                cs[c][i] = cs[e][j] => (c = e /\ i = j)
          /\ \A c \in 1..7 : \A i, j \in 1..Len(cs[c]) :
                i < j => YOf(cs[c][i]) >= YOf(cs[c][j])

\* the columns of every region of every page of the call, once the pages are
\* loaded and as far as extract_table_objects and extract_columns yield them
LoadedColumns ==
    IF steps.load.kind # "Ok" THEN {}
    ELSE UNION { IF RegionsOfPage(p).kind # "Ok" THEN {}
                 ELSE UNION { LET cols == extract_columns(RegionsOfPage(p).val[r])
                              IN  IF cols.kind # "Ok" THEN {}
                                  ELSE { cols.val[c] : c \in 1..Len(cols.val) } :
                              r \in 1..Len(RegionsOfPage(p).val) } :
                 p \in 1..Len(pages) }

\* C16 as stated: in every column that extract_columns builds from the
\* deduplicated objects of a page, the horizontal lines sorted by descending
\* y have pairwise distinct y, so every spacing is strictly positive.
C16_SpacingsPositive ==
    \A col \in LoadedColumns :
        \A j \in 1..(Len(HLines(col)) - 1) : spacings(HLines(col))[j] > 0

\* C16 as amended: the horizontal lines of such a column are pairwise
\* different segments in non-increasing y, so every spacing is non-negative;
\* a spacing is zero only between two segments of the same y that differ in
\* their x-extent.
C16_SpacingsNonNegative ==
    \A col \in LoadedColumns :
        LET ls == HLines(col) IN
        /\ \A i, j \in 1..Len(ls) : i # j => ls[i] # ls[j]
        /\ \A j \in 1..(Len(ls) - 1) :
              /\ spacings(ls)[j] >= 0
              /\ spacings(ls)[j] = 0
                 => (ls[j].sx # ls[j + 1].sx \/ ls[j].ex # ls[j + 1].ex)

\* a Schedule was returned for a document with a column in which two
\* segments lie at the same y
C16_Witness ==
    /\ Done /\ result.kind = "Ok"
    /\ \E col \in LoadedColumns :
          \E j \in 1..(Len(HLines(col)) - 1) : spacings(HLines(col))[j] = 0

\* C22: for every column of the call that passes the 7-line check and the
\* header-first check, the cell walk stays inside the seven cells, also for
\* a text at or below the lowest retained line: generate_column returns
\* seven lists that together hold every attached text.
C22_WalkInsideCells ==
    \A col \in LoadedColumns :
        LET g == generate_column(col) IN
        (Len(HLines(col)) >= 7 /\ g.kind # "Err")
        => /\ g.kind = "Ok"
           /\ Len(g.val) = 7
           /\ Len(Flatten(g.val)) = Len(texts(col.column))

\* the gaps below the lines of ls that are among the six largest
SixLargest(ls) ==
    LET sp == spacings(ls) IN
    { j \in 1..Len(sp) : Cardinality({ m \in 1..Len(sp) : sp[m] > sp[j] }) < 6 }

\* C17: a column with L >= 7 horizontal lines whose sixth-largest spacing is
\* strictly greater than its seventh-largest (or with L = 7) keeps exactly
\* seven lines: the line directly above each of the six largest gaps and the
\* lowest line; every line above a smaller gap is discarded, and the column
\* passes the line-count check.
C17_SixLargestGaps ==
    columns.kind = "Ok" =>
      \A k \in 1..Len(columns.val) :
        LET ls == HLines(columns.val[k])
            L == Len(ls)
            sorted == Reverse(SortAsc(spacings(ls)))
        IN  (L >= 7 /\ (L = 7 \/ sorted[6] > sorted[7]))
            => /\ Kept(columns.val[k]) = Pick(ls, SixLargest(ls) \cup {L})
               /\ Len(Kept(columns.val[k])) = 7
               /\ \A j \in 1..(L - 1) :
                     spacings(ls)[j] < sorted[6]
                     => ~InSeq(ls[j], Kept(columns.val[k]))
               /\ k <= Len(generated) => generated[k] # LineCountWrong

\* a column with more than seven lines, a tick mark among them, has been
\* split into its cells after the filter discarded a line
C17_Witness ==
    \E k \in 1..Len(generated) :
        LET ls == HLines(columns.val[k]) IN
        /\ Len(ls) > 7
        /\ Reverse(SortAsc(spacings(ls)))[6] > Reverse(SortAsc(spacings(ls)))[7]
        /\ \E j \in 1..Len(ls) : ls[j].sx = 25 /\ InSeq(ls[j], Kept(columns.val[k]))
        /\ \E j \in 1..Len(ls) : ls[j].sx = 20 /\ ~InSeq(ls[j], Kept(columns.val[k]))
        /\ generated[k].kind = "Ok"

\* the number of the lines in kept at or above y
LinesAtOrAbove(kept, y) ==
    Cardinality({ j \in 1..Len(kept) : kept[j].sy >= y })

\* C21: in a column that generate_column splits, a retained line precedes
\* every text of its own y, whatever the order of the bag: every attached
\* text is in the cell whose index is the number of retained lines at or
\* above its y, and in no other cell, so that a text on a retained line is
\* in the cell below that line.
C21_LineBeforeText ==
    \A k \in 1..Len(generated) :
        generated[k].kind = "Ok" =>
          LET kept == Kept(columns.val[k]) IN
          \A t \in BagTexts(columns.val[k]) :
            LET below == LinesAtOrAbove(kept, t.sy) IN
            \A c \in 0..6 :
              InSeq(t.text, generated[k].val[c + 1]) <=> c = below

\* a column was split in which a text lies on a retained line below the
\* first one and is in the cell under it
C21_Witness ==
    \E k \in 1..Len(generated) :
        /\ generated[k].kind = "Ok"
        /\ LET kept == Kept(columns.val[k]) IN
           \E t \in BagTexts(columns.val[k]) : \E j \in 1..Len(kept) :
              /\ kept[j].sy = t.sy
              /\ InSeq(t.text, generated[k].val[j + 1])
              /\ ~InSeq(t.text, generated[k].val[j])

=============================================================================
